---- MODULE Spec2Model ----
(***************************************************************************)
(* The latitude-band climate page: a CSV of zonal temperature anomalies,   *)
(* six fixed latitude bands grouped by clicks into up to three groups, a   *)
(* line chart of the per-group yearly means and a world map with coloured  *)
(* latitude strips.                                                        *)
(*                                                                         *)
(* Two variants of the page script are modelled:                           *)
(*   "global"   src/global.js: groups start empty, the map is rendered     *)
(*              once and a click recolours its strips in place;            *)
(*   "buttons"  src/unnamed/part_001: groups start in the default preset,  *)
(*              every handler removes the map svg and renders a new one,   *)
(*              and there are clear-all and restore-defaults buttons.      *)
(***************************************************************************)
EXTENDS Integers, Sequences, FiniteSets, TLC

(***************************************************************************)
(* Bounds of the model.                                                    *)
(***************************************************************************)
\* A world-map load stays in flight for at most MaxAge further user events.
MaxAge == 1
\* Longest sample list drawn for the averager's own specification.
MaxSamples == 3
\* The user of LiveSpec stops after MaxEvents clicks and presses.
MaxEvents == 3

(***************************************************************************)
(* Program constants.                                                      *)
(***************************************************************************)
latitudeBands ==
  << [id |-> 0, min |-> -90, max |-> -60],
     [id |-> 1, min |-> -60, max |-> -30],
     [id |-> 2, min |-> -30, max |-> 0],
     [id |-> 3, min |-> 0,   max |-> 30],
     [id |-> 4, min |-> 30,  max |-> 60],
     [id |-> 5, min |-> 60,  max |-> 90] >>

BandIds == { latitudeBands[i].id : i \in 1..Len(latitudeBands) }

\* The loops "for (let g = 1; g <= 3; g++)" and the keys of userGroups.
GroupIds == {1, 2, 3}

\* new Set() for each of the three keys.
EmptyGroups == [g \in GroupIds |-> {}]

\* The object applyDefaultPreset builds.
DefaultPreset == (1 :> {0, 5}) @@ (2 :> {1, 4}) @@ (3 :> {2, 3})

\* d3.schemeSet1, the range of groupColorScale (its first three colours).
schemeSet1 == << "#e41a1c", "#377eb8", "#4daf4a" >>

Transparent == "rgba(255,255,255,0.0)"

\* groupColorScale = d3.scaleOrdinal().domain([1, 2, 3]).range(d3.schemeSet1)
groupColorScale(g) == schemeSet1[g]

\* The template string `Group ${g}`.
GroupName(g) == CASE g = 1 -> "Group 1" [] g = 2 -> "Group 2" [] g = 3 -> "Group 3"

(***************************************************************************)
(* handleBandClick: the click cycle of one band.  The loop runs g = 1..3   *)
(* and returns at the first group holding the band; past the loop the band *)
(* was in no group.                                                        *)
(***************************************************************************)
RECURSIVE handleBandClickFrom(_, _, _)
handleBandClickFrom(groups, bandId, g) ==
  IF g > 3
    THEN [groups EXCEPT ![1] = @ \cup {bandId}]
    ELSE IF bandId \in groups[g]
           THEN LET deleted == [groups EXCEPT ![g] = @ \ {bandId}]
                IN  IF g < 3
                      THEN [deleted EXCEPT ![g + 1] = @ \cup {bandId}]
                      ELSE deleted
           ELSE handleBandClickFrom(groups, bandId, g + 1)

\* handleBandClick without "userGroups[g].delete(bandId)".
handleBandClickNoDelete(groups, bandId) ==
  LET in == {g \in {1, 2, 3} : bandId \in groups[g]}
  IN  IF in = {}
        THEN [groups EXCEPT ![1] = @ \cup {bandId}]
        ELSE LET g == CHOOSE x \in in : \A y \in in : x <= y
             IN  IF g < 3 THEN [groups EXCEPT ![g + 1] = @ \cup {bandId}] ELSE groups

\* handleBandClick without the "return" that ends the loop: the band moved to
\* group g + 1 is found there again, and ends in group 1.
handleBandClickNoReturn(groups, bandId) ==
  [g \in {1, 2, 3} |-> IF g = 1 THEN groups[g] \cup {bandId} ELSE groups[g] \ {bandId}]

\* handleBandClick with "userGroups[g].clear()" for the delete.
handleBandClickClear(groups, bandId) ==
  LET in == {g \in {1, 2, 3} : bandId \in groups[g]}
  IN  IF in = {}
        THEN [groups EXCEPT ![1] = @ \cup {bandId}]
        ELSE LET g == CHOOSE x \in in : \A y \in in : x <= y
                 cleared == [groups EXCEPT ![g] = {}]
             IN  IF g < 3 THEN [cleared EXCEPT ![g + 1] = @ \cup {bandId}] ELSE cleared

handleBandClick(groups, bandId) == handleBandClickFrom(groups, bandId, 1)

(***************************************************************************)
(* computeGroupAverages.  A loaded data set is [ok |-> TRUE, rows |-> the  *)
(* samples in file order]; the value loadTASData yields after a failed     *)
(* load (undefined) is [ok |-> FALSE, rows |-> <<>>].  A mean is kept as   *)
(* the exact fraction num / den.                                           *)
(***************************************************************************)
\* The membership test d.lat >= b.min && d.lat < b.max.
InBand(lat, b) == lat >= b.min /\ lat < b.max

\* bands.filter(b => ids.has(b.id))
bandRanges(bands, ids) == SelectSeq(bands, LAMBDA b : b.id \in ids)

\* data.filter(d => ranges.some(b => ...))
filterSamples(rows, ranges) ==
  SelectSeq(rows, LAMBDA d : \E i \in 1..Len(ranges) : InBand(d.lat, ranges[i]))

\* d3.mean(v, d => d.tas): the sum of the values over their number.
RECURSIVE sumTas(_)
sumTas(v) == IF v = <<>> THEN 0 ELSE Head(v).tas + sumTas(Tail(v))

\* A total in place of the mean.
d3sum(v) == [num |-> sumTas(v), den |-> 1]

d3mean(v) == [num |-> sumTas(v), den |-> Len(v)]

\* The keys of d3.rollups, in the order of their first occurrence.
RECURSIVE rollupKeys(_, _)
rollupKeys(values, keys) ==
  IF values = <<>>
    THEN keys
    ELSE LET k == Head(values).year
         IN  rollupKeys(Tail(values),
                        IF \E i \in 1..Len(keys) : keys[i] = k
                          THEN keys
                          ELSE Append(keys, k))

\* A rollup that lists its keys in ascending order of the year.
RECURSIVE ascending(_)
ascending(years) ==
  IF years = {}
    THEN <<>>
    ELSE LET least == CHOOSE y \in years : \A z \in years : y <= z
         IN  << least >> \o ascending(years \ {least})

rollupsByYear(values) ==
  LET keys == ascending({ values[i].year : i \in 1..Len(values) })
  IN  [i \in 1..Len(keys) |->
         [year |-> keys[i],
          tas  |-> [num |-> sumTas(SelectSeq(values, LAMBDA d : d.year = keys[i])),
                    den |-> Len(SelectSeq(values, LAMBDA d : d.year = keys[i]))]]]

\* d3.rollups(filtered, v => d3.mean(v, d => d.tas), d => d.year) followed by
\* nested.map(([year, tas]) => ({ year, tas })).
rollups(values) ==
  LET keys == rollupKeys(values, <<>>)
  IN  [i \in 1..Len(keys) |->
         [year |-> keys[i],
          tas  |-> d3mean(SelectSeq(values, LAMBDA d : d.year = keys[i]))]]

\* One pass of the loop body for group g.
groupSeries(rows, groups, bands, g) ==
  [name   |-> GroupName(g),
   values |-> rollups(filterSamples(rows, bandRanges(bands, groups[g])))]

\* The loop over g; data.filter on undefined data raises a TypeError, which is
\* reached only for a group that is not empty.
RECURSIVE computeFrom(_, _, _, _, _)
computeFrom(data, groups, bands, g, results) ==
  IF g > 3
    THEN [threw |-> FALSE, value |-> results]
    ELSE IF Cardinality(groups[g]) = 0
           THEN computeFrom(data, groups, bands, g + 1, results)
           ELSE IF ~data.ok
                  THEN [threw |-> TRUE, value |-> <<>>]
                  ELSE computeFrom(data, groups, bands, g + 1,
                         Append(results, groupSeries(data.rows, groups, bands, g)))

\* An averager that gives every group a series, the empty ones included.
computeEveryGroup(data, groups, bands) ==
  [threw |-> ~data.ok,
   value |-> IF data.ok
               THEN [g \in 1..3 |-> groupSeries(data.rows, groups, bands, g)]
               ELSE <<>>]

computeGroupAverages(data, groups, bands) == computeFrom(data, groups, bands, 1, <<>>)

(***************************************************************************)
(* groupsMatchDefaultPattern.  Its result is a JavaScript value: false,    *)
(* undefined (a find that found nothing) or an entry [g, set].             *)
(***************************************************************************)
JsFalse == [type |-> "boolean", g |-> 0]
JsUndefined == [type |-> "undefined", g |-> 0]
JsEntry(g) == [type |-> "entry", g |-> g]

Truthy(v) == v.type = "entry"

\* [...Object.entries(groups)].find(([g, set]) => pair.every(b => set.has(b)))
findGroup(groups, pair) ==
  IF \E g \in GroupIds : pair \subseteq groups[g]
    THEN JsEntry(CHOOSE g \in GroupIds :
                   /\ pair \subseteq groups[g]
                   /\ \A h \in GroupIds : pair \subseteq groups[h] => g <= h)
    ELSE JsUndefined

\* a && b
JsAnd(a, b) == IF Truthy(a) THEN b ELSE a

\* A pattern test that leaves out the test of the sizes.
groupsMatchAnySizes(groups) ==
  JsAnd(JsAnd(findGroup(groups, {0, 5}), findGroup(groups, {2, 3})),
        findGroup(groups, {1, 4}))

groupsMatchDefaultPattern(groups) ==
  LET sizes == [g \in GroupIds |-> Cardinality(groups[g])]
      twos  == Cardinality({g \in GroupIds : sizes[g] = 2})
  IN  IF ~((\E g \in GroupIds : sizes[g] = 2) /\ twos = 3)
        THEN JsFalse
        ELSE LET polesGroup  == findGroup(groups, {0, 5})
                 midsGroup   == findGroup(groups, {2, 3})
                 midlatGroup == findGroup(groups, {1, 4})
             IN  JsAnd(JsAnd(polesGroup, midsGroup), midlatGroup)

(***************************************************************************)
(* The page.                                                               *)
(*   variant     which script the page runs                                *)
(*   pc          "loading" while the script awaits loadTASData, then       *)
(*               "ready"                                                   *)
(*   tasData     the const tasData                                         *)
(*   heap        the group objects ({1: Set, 2: Set, 3: Set}) by identity  *)
(*   userGroups  the object the global binding userGroups refers to        *)
(*   renders     the calls of renderLatMapWithWorld whose svg is in        *)
(*               #latmap or whose world-map load is still in flight, in    *)
(*               the order of the calls; groups is the object the call got *)
(*               as its userGroups parameter, strips the fill of its six   *)
(*               rects (<<>> until they are drawn)                         *)
(*   linechart   the content of #linechart: <<>> or one chart              *)
(*   lastEvent   history: the kind of the latest user event ("none" until  *)
(*               the first one)                                            *)
(*   events      history, kept by LiveSpec only: the number of user events *)
(*   streak      history, kept by SpecCycle only: the band of the latest   *)
(*               run of clicks on one band, their number and the grouping  *)
(*               before the first of them                                  *)
(*   console     the levels of the messages written to the console         *)
(*   fetches     the number of calls of d3.csv                             *)
(***************************************************************************)
VARIABLES variant, pc, tasData, heap, userGroups, renders, linechart, lastEvent,
          events, streak, console, fetches

vars ==
  << variant, pc, tasData, heap, userGroups, renders, linechart, lastEvent,
     events, streak, console, fetches >>

Variants == {"global", "buttons"}

\* Enough names for the global object, one more per load in flight and the
\* object being built.
ObjIds == 1..(MaxAge + 3)

NoData == [ok |-> FALSE, rows |-> <<>>]

\* The CSV the page is loaded with.
Fixture ==
  << [year |-> 2000, lat |-> -75, tas |-> 1],
     [year |-> 2000, lat |-> 75,  tas |-> 4],
     [year |-> 2001, lat |-> 0,   tas |-> -1] >>

NoStreak == [band |-> -1, n |-> 0, before |-> EmptyGroups]

(***************************************************************************)
(* Group objects.  An object's name is not observable, so after every step *)
(* the objects are renamed in the order in which the page refers to them   *)
(* (the global binding first, then the renders in call order) and objects  *)
(* nothing refers to are forgotten.                                        *)
(***************************************************************************)
Refs(ug, rs) == {ug} \cup { rs[i].groups : i \in 1..Len(rs) }

\* A fresh object: { 1: new Set(..), 2: new Set(..), 3: new Set(..) }.
newObject(ug, rs) == CHOOSE o \in ObjIds : o \notin Refs(ug, rs)

RECURSIVE firstRefs(_, _)
firstRefs(refs, seen) ==
  IF refs = <<>>
    THEN seen
    ELSE firstRefs(Tail(refs),
                   IF \E n \in 1..Len(seen) : seen[n] = Head(refs)
                     THEN seen
                     ELSE Append(seen, Head(refs)))

reachable(h, ug, rs) ==
  LET order   == firstRefs(<< ug >> \o [i \in 1..Len(rs) |-> rs[i].groups], <<>>)
      name(o) == CHOOSE n \in 1..Len(order) : order[n] = o
  IN  [heap       |-> [n \in ObjIds |->
                         IF n <= Len(order) THEN h[order[n]] ELSE EmptyGroups],
       userGroups |-> name(ug),
       renders    |-> [i \in 1..Len(rs) |-> [rs[i] EXCEPT !.groups = name(@)]]]

\* The step's new memory: heap h, global binding ug, renders rs.
Store(h, ug, rs) ==
  LET m == reachable(h, ug, rs)
  IN  /\ heap' = m.heap
      /\ userGroups' = m.userGroups
      /\ renders' = m.renders

(***************************************************************************)
(* The map.                                                                *)
(***************************************************************************)
\* global.js: for (g = 1..3) if (userGroups[g].has(d.id)) return colour.
fillLoop(groups, id) ==
  IF \E g \in GroupIds : id \in groups[g]
    THEN groupColorScale(CHOOSE g \in GroupIds :
                           /\ id \in groups[g]
                           /\ \A h \in GroupIds : id \in groups[h] => g <= h)
    ELSE Transparent

\* [1,2,3].find(g => userGroups[g].has(d.id)); 0 stands for undefined.
arrayFind(groups, id) ==
  IF \E g \in GroupIds : id \in groups[g]
    THEN CHOOSE g \in GroupIds :
           /\ id \in groups[g]
           /\ \A h \in GroupIds : id \in groups[h] => g <= h
    ELSE 0

\* part_001: find(..) ? groupColorScale(find(..)) : transparent.
fillFind(groups, id) ==
  IF arrayFind(groups, id) # 0
    THEN groupColorScale(arrayFind(groups, id))
    ELSE Transparent

\* The fills of the rects joined to bands, in the order of bands.
bandFills(v, groups, bands) ==
  [i \in 1..Len(bands) |->
     IF v = "global" THEN fillLoop(groups, bands[i].id)
                     ELSE fillFind(groups, bands[i].id)]

\* renderLatMapWithWorld up to its await: the svg is appended to #latmap.
startRender(rs, obj) ==
  Append(rs, [groups |-> obj, attached |-> TRUE, phase |-> "awaiting",
              strips |-> <<>>, age |-> 0])

\* An svg that is out of the document and whose render has ended is garbage.
sweep(rs) == SelectSeq(rs, LAMBDA r : r.attached \/ r.phase = "awaiting")

\* A handler that starts the new render without removing the old svg.
removeNoSvg(rs) == sweep(rs)

\* d3.select("#latmap").selectAll("svg").remove()
removeSvgs(rs) == sweep([i \in 1..Len(rs) |-> [rs[i] EXCEPT !.attached = FALSE]])

\* One more user event has passed for the loads in flight.
older(rs) ==
  [i \in 1..Len(rs) |->
     IF rs[i].phase = "awaiting" THEN [rs[i] EXCEPT !.age = @ + 1] ELSE rs[i]]

UserEventAllowed ==
  /\ pc = "ready"
  /\ \A i \in 1..Len(renders) : renders[i].phase = "awaiting" => renders[i].age < MaxAge

(***************************************************************************)
(* The chart.                                                              *)
(***************************************************************************)
\* renderTASChart: the lines and legend of groupedData; part_001 adds the two
\* annotation callouts when groupsMatchDefaultPattern(userGroups) is truthy.
renderTASChart(v, groupedData, groups) ==
  [series   |-> groupedData,
   callouts |-> v = "buttons" /\ Truthy(groupsMatchDefaultPattern(groups))]

\* updateChartFromGroups: when computeGroupAverages throws, renderTASChart is
\* not reached and #linechart keeps what it held.
updateChartFromGroups(v, data, groups, chart) ==
  LET groupedData == computeGroupAverages(data, groups, latitudeBands)
  IN  IF groupedData.threw
        THEN chart
        ELSE << renderTASChart(v, groupedData.value, groups) >>

(***************************************************************************)
(* Initial state: the script is at "const tasData = await loadTASData()".  *)
(***************************************************************************)
Init ==
  /\ variant \in Variants
  /\ pc = "loading"
  /\ tasData = NoData
  /\ heap = [o \in ObjIds |-> EmptyGroups]
  /\ userGroups = 1
  /\ renders = <<>>
  /\ linechart = <<>>
  /\ lastEvent = "none"
  /\ events = 0
  /\ streak = NoStreak
  /\ console = <<>>
  /\ fetches = 0

(***************************************************************************)
(* The rest of the script, run when loadTASData settles: the group         *)
(* storage, applyDefaultPreset() in part_001, the initial renders.         *)
(***************************************************************************)
\* A preset that gives the tropics to group 1 and the poles to group 3.
applyTropicsFirst(h, o) ==
  [h EXCEPT ![o] = (1 :> {2, 3}) @@ (2 :> {1, 4}) @@ (3 :> {0, 5})]

\* applyDefaultPreset(): object o is the new preset object.
applyDefaultPreset(h, o) == [h EXCEPT ![o] = DefaultPreset]

\* { 1: new Set(), 2: new Set(), 3: new Set() } as object o.
emptyGroups(h, o) == [h EXCEPT ![o] = EmptyGroups]

runScript(data) ==
  LET first  == newObject(0, <<>>)
      h1     == emptyGroups(heap, first)
      preset == newObject(first, <<>>)
      ug     == IF variant = "buttons" THEN preset ELSE first
      h2     == IF variant = "buttons" THEN applyDefaultPreset(h1, preset) ELSE h1
      rs     == startRender(<<>>, ug)
  IN  /\ pc' = "ready"
      /\ tasData' = data
      /\ Store(h2, ug, rs)
      /\ linechart' = updateChartFromGroups(variant, data, h2[ug], linechart)
      /\ UNCHANGED << variant, lastEvent, events, streak >>

(***************************************************************************)
(* loadTASData.  A field of the CSV is text: a sign and decimal digits.    *)
(***************************************************************************)
CsvField(neg, digits) == [neg |-> neg, digits |-> digits]

\* data/zonal_anomaly.csv as d3.csv parses it: one object of texts per row.
CsvFile ==
  << [year |-> CsvField(FALSE, << 2, 0, 0, 0 >>), lat |-> CsvField(TRUE, << 7, 5 >>),
      tas  |-> CsvField(FALSE, << 1 >>)],
     [year |-> CsvField(FALSE, << 2, 0, 0, 0 >>), lat |-> CsvField(FALSE, << 7, 5 >>),
      tas  |-> CsvField(FALSE, << 4 >>)],
     [year |-> CsvField(FALSE, << 2, 0, 0, 1 >>), lat |-> CsvField(FALSE, << 0 >>),
      tas  |-> CsvField(TRUE, << 1 >>)] >>

\* The two ways d3.csv settles.
Resolved == [ok |-> TRUE, rows |-> CsvFile]
Rejected == [ok |-> FALSE, rows |-> <<>>]

RECURSIVE digitsValue(_)
digitsValue(digits) ==
  IF digits = <<>>
    THEN 0
    ELSE 10 * digitsValue(SubSeq(digits, 1, Len(digits) - 1)) + digits[Len(digits)]

\* +text
unaryPlus(field) ==
  IF field.neg THEN 0 - digitsValue(field.digits) ELSE digitsValue(field.digits)

\* d => ({ year: +d.year, lat: +d.lat, tas: +d.tas })
parseRow(d) ==
  [year |-> unaryPlus(d.year), lat |-> unaryPlus(d.lat), tas |-> unaryPlus(d.tas)]

\* A loader whose catch logs the error and throws it again.
loadTASDataRethrow(response) ==
  IF response.ok
    THEN [raised |-> FALSE, logged |-> <<>>,
          value  |-> [ok |-> TRUE,
                      rows |-> [i \in 1..Len(response.rows) |-> parseRow(response.rows[i])]]]
    ELSE [raised |-> TRUE, logged |-> << "error" >>, value |-> NoData]

\* raised: the promise rejects; logged: what console.error wrote; value:
\* what the promise resolves to (NoData for undefined).
loadTASData(response) ==
  IF response.ok
    THEN [raised |-> FALSE, logged |-> <<>>,
          value  |-> [ok |-> TRUE,
                      rows |-> [i \in 1..Len(response.rows) |-> parseRow(response.rows[i])]]]
    ELSE [raised |-> FALSE, logged |-> << "error" >>, value |-> NoData]

\* const tasData = await loadTASData(); and what follows it.  A rejected
\* await ends the evaluation of the module; global.js logs tasData.
moduleBody(response) ==
  LET r == loadTASData(response)
  IN  /\ fetches' = fetches + 1
      /\ IF r.raised
           THEN /\ pc' = "failed"
                /\ console' = console \o r.logged
                /\ UNCHANGED << variant, tasData, heap, userGroups, renders, linechart,
                                lastEvent, events, streak >>
           ELSE /\ runScript(r.value)
                /\ console' = console \o r.logged \o
                                IF variant = "global" THEN << "log" >> ELSE <<>>

\* d3.csv resolved: one {year, lat, tas} record per row.
LoadTASData ==
  /\ pc = "loading"
  /\ moduleBody(Resolved)

\* d3.csv rejected: the catch logs and loadTASData yields undefined.
LoadTASDataFailed ==
  /\ pc = "loading"
  /\ moduleBody(Rejected)

(***************************************************************************)
(* The world-map load of render i settles.                                 *)
(***************************************************************************)
\* A continuation that finds the svg by a fresh selection in the document
\* and so draws into whichever svg is there when the load completes.
drawStripsInDocument(rs, i) ==
  LET shown == { j \in 1..Len(rs) : rs[j].attached }
      j     == IF shown = {} THEN i ELSE CHOOSE k \in shown : TRUE
      fills == bandFills(variant, heap[rs[i].groups], latitudeBands)
      done  == [rs EXCEPT ![i].phase = "drawn", ![i].age = 0]
  IN  [done EXCEPT ![j].phase = "drawn", ![j].strips = fills]

\* The continuation after the await draws the countries and the six rects
\* into the render's own svg, filled from the object it got as parameter.
drawStrips(rs, i) ==
  [rs EXCEPT ![i].phase = "drawn",
             ![i].age = 0,
             ![i].strips = bandFills(variant, heap[rs[i].groups], latitudeBands)]

WorldLoaded(i) ==
  /\ pc = "ready"
  /\ i \in 1..Len(renders)
  /\ renders[i].phase = "awaiting"
  /\ Store(heap, userGroups, sweep(drawStrips(renders, i)))
  /\ UNCHANGED << variant, pc, tasData, linechart, lastEvent, events, streak,
                  console, fetches >>

\* d3.json rejected: the render ends with nothing drawn into its svg.
WorldFailed(i) ==
  /\ pc = "ready"
  /\ i \in 1..Len(renders)
  /\ renders[i].phase = "awaiting"
  /\ Store(heap, userGroups,
           sweep([renders EXCEPT ![i].phase = "failed", ![i].age = 0]))
  /\ UNCHANGED << variant, pc, tasData, linechart, lastEvent, events, streak,
                  console, fetches >>

(***************************************************************************)
(* The click handler of a rect of render i (which must be in the document  *)
(* and drawn for the click to happen).                                     *)
(***************************************************************************)
\* renderUpdatedColors(svg, bands, userGroups, ..) with the handler's own svg
\* and userGroups, the parameters of render i.
renderUpdatedColors(rs, i, h) ==
  [rs EXCEPT ![i].strips = bandFills(variant, h[rs[i].groups], latitudeBands)]

\* global.js: handleBandClick, renderUpdatedColors, updateChartFromGroups.
clickGlobal(i, bandId) ==
  LET h == [heap EXCEPT ![userGroups] = handleBandClick(@, bandId)]
  IN  /\ Store(h, userGroups, renderUpdatedColors(older(renders), i, h))
      /\ linechart' = updateChartFromGroups(variant, tasData, h[userGroups], linechart)

\* part_001: handleBandClick, remove the svgs, renderLatMapWithWorld with the
\* handler's own userGroups (the render's parameter), updateChartFromGroups.
clickButtons(i, bandId) ==
  LET h == [heap EXCEPT ![userGroups] = handleBandClick(@, bandId)]
  IN  /\ Store(h, userGroups,
               startRender(removeSvgs(older(renders)), renders[i].groups))
      /\ linechart' = updateChartFromGroups(variant, tasData, h[userGroups], linechart)

onBandClick(i, bandId) ==
  /\ UserEventAllowed
  /\ i \in 1..Len(renders)
  /\ renders[i].attached
  /\ renders[i].phase = "drawn"
  /\ IF variant = "global" THEN clickGlobal(i, bandId) ELSE clickButtons(i, bandId)
  /\ lastEvent' = "click"
  /\ UNCHANGED << variant, pc, tasData >>

ClickBand(i, bandId) == onBandClick(i, bandId) /\ UNCHANGED << events, streak, console, fetches >>

(***************************************************************************)
(* The buttons of part_001.                                                *)
(***************************************************************************)
\* A button handler that leaves the chart as it was.
rerenderKeepChart(h, o) ==
  /\ Store(h, o, startRender(removeSvgs(older(renders)), o))
  /\ UNCHANGED << variant, pc, tasData, linechart >>

\* The handlers' common tail, userGroups being rebound to object o of h:
\* remove the svgs, renderLatMapWithWorld, updateChartFromGroups.
rerender(h, o) ==
  /\ Store(h, o, startRender(removeSvgs(older(renders)), o))
  /\ linechart' = updateChartFromGroups(variant, tasData, h[o], linechart)
  /\ UNCHANGED << variant, pc, tasData >>

onClearAll ==
  /\ UserEventAllowed
  /\ variant = "buttons"
  /\ LET o == newObject(userGroups, renders) IN rerender(emptyGroups(heap, o), o)
  /\ lastEvent' = "clear"

onRestoreDefaults ==
  /\ UserEventAllowed
  /\ variant = "buttons"
  /\ LET o == newObject(userGroups, renders) IN rerender(applyDefaultPreset(heap, o), o)
  /\ lastEvent' = "restore"

ClearAll == onClearAll /\ UNCHANGED << events, streak, console, fetches >>

RestoreDefaults == onRestoreDefaults /\ UNCHANGED << events, streak, console, fetches >>

Next ==
  \/ LoadTASData
  \/ LoadTASDataFailed
  \/ \E i \in 1..Len(renders) : WorldLoaded(i)
  \/ \E i \in 1..Len(renders) : WorldFailed(i)
  \/ \E i \in 1..Len(renders), b \in BandIds : ClickBand(i, b)
  \/ ClearAll
  \/ RestoreDefaults

Spec == Init /\ [][Next]_vars

(***************************************************************************)
(* What the page shows.                                                    *)
(***************************************************************************)
\* The current grouping: the object the global binding refers to.
Groups == heap[userGroups]

\* The svgs in #latmap.
LatmapSvgs == SelectSeq(renders, LAMBDA r : r.attached)

TypeOK ==
  /\ variant \in Variants
  /\ pc \in {"loading", "ready"}
  /\ userGroups \in ObjIds
  /\ \A o \in ObjIds : \A g \in GroupIds : heap[o][g] \subseteq BandIds
  /\ Len(renders) <= MaxAge + 2
  /\ Cardinality(Refs(userGroups, renders)) < Cardinality(ObjIds)
  /\ Len(linechart) <= 1

(***************************************************************************)
(* Four clicks in a row on one band.  SpecCycle starts from the page at    *)
(* rest in any of its groupings (the map drawn, no load in flight) and     *)
(* clicks one band up to four times, the map being redrawn in between,     *)
(* with streak recording the band, the number of clicks and the grouping   *)
(* before the first of them.                                               *)
(***************************************************************************)
\* The groupings of the page: every band in one group or in none.
Groupings ==
  { [g \in GroupIds |-> {b \in BandIds : f[b] = g}] : f \in [BandIds -> 0..3] }

InitCycle ==
  /\ variant \in Variants
  /\ pc = "ready"
  /\ tasData = [ok |-> TRUE, rows |-> Fixture]
  /\ userGroups = 1
  /\ \E groups \in Groupings :
       /\ heap = [o \in ObjIds |-> IF o = 1 THEN groups ELSE EmptyGroups]
       /\ renders = << [groups |-> 1, attached |-> TRUE, phase |-> "drawn",
                        strips |-> bandFills(variant, groups, latitudeBands),
                        age |-> 0] >>
       /\ linechart = updateChartFromGroups(variant, tasData, groups, <<>>)
  /\ lastEvent = "none"
  /\ events = 0
  /\ streak = NoStreak
  /\ console = IF variant = "global" THEN << "log" >> ELSE <<>>
  /\ fetches = 1

ClickAgain(i, bandId) ==
  /\ streak.n < 4
  /\ streak.n > 0 => bandId = streak.band
  /\ onBandClick(i, bandId)
  /\ UNCHANGED << events, console, fetches >>
  /\ streak' = [band   |-> bandId,
                n      |-> streak.n + 1,
                before |-> IF streak.n = 0 THEN Groups ELSE streak.before]

NextCycle ==
  \/ \E i \in 1..Len(renders), b \in BandIds : ClickAgain(i, b)
  \/ \E i \in 1..Len(renders) : WorldLoaded(i)

SpecCycle == InitCycle /\ [][NextCycle]_vars

(***************************************************************************)
(* The page with a user who stops.  LiveSpec counts the user events and    *)
(* allows MaxEvents of them; the CSV load settles and every world-map load *)
(* completes (weak fairness: the event loop runs a continuation once its   *)
(* fetch has resolved).                                                    *)
(***************************************************************************)
LiveClick(i, bandId) ==
  /\ events < MaxEvents
  /\ onBandClick(i, bandId)
  /\ events' = events + 1
  /\ UNCHANGED << streak, console, fetches >>

LiveClearAll ==
  /\ events < MaxEvents
  /\ onClearAll
  /\ events' = events + 1
  /\ UNCHANGED << streak, console, fetches >>

LiveRestoreDefaults ==
  /\ events < MaxEvents
  /\ onRestoreDefaults
  /\ events' = events + 1
  /\ UNCHANGED << streak, console, fetches >>

NextLive ==
  \/ LoadTASData
  \/ LoadTASDataFailed
  \/ \E i \in 1..Len(renders) : WorldLoaded(i)
  \/ \E i \in 1..Len(renders), b \in BandIds : LiveClick(i, b)
  \/ LiveClearAll
  \/ LiveRestoreDefaults

LiveSpec ==
  /\ Init
  /\ [][NextLive]_vars
  /\ WF_vars(LoadTASData \/ LoadTASDataFailed)
  /\ WF_vars(\E i \in 1..Len(renders) : WorldLoaded(i))

(***************************************************************************)
(* The averager on its own.  SpecAvg starts with any list of up to         *)
(* MaxSamples samples loaded and any grouping of bands 2 and 3, and calls  *)
(* updateChartFromGroups.                                                  *)
(***************************************************************************)
SampleYears == {2000, 2001}

\* -15 lies inside band 2, 0 is the border of bands 2 and 3, 90 the upper end
\* of band 5.
SampleLats == {-15, 0, 90}

SampleTas == {-1, 2}

Samples == [year : SampleYears, lat : SampleLats, tas : SampleTas]

SampleLists == UNION { [1..n -> Samples] : n \in 0..MaxSamples }

\* Those that leave every band but 2 and 3 unassigned.
AvgGroupings == { G \in Groupings : \A g \in GroupIds : G[g] \subseteq {2, 3} }

InitAvg ==
  /\ variant = "global"
  /\ pc = "ready"
  /\ tasData \in [ok : {TRUE}, rows : SampleLists]
  /\ userGroups = 1
  /\ \E groups \in AvgGroupings :
       heap = [o \in ObjIds |-> IF o = 1 THEN groups ELSE EmptyGroups]
  /\ renders = <<>>
  /\ linechart = <<>>
  /\ lastEvent = "none"
  /\ events = 0
  /\ streak = NoStreak
  /\ console = << "log" >>
  /\ fetches = 1

Average ==
  /\ linechart = <<>>
  /\ linechart' = updateChartFromGroups(variant, tasData, heap[userGroups], linechart)
  /\ UNCHANGED << variant, pc, tasData, heap, userGroups, renders, lastEvent,
                  events, streak, console, fetches >>

NextAvg == Average

SpecAvg == InitAvg /\ [][NextAvg]_vars

(***************************************************************************)
(* Claims.                                                                 *)
(***************************************************************************)
\* The groups of grouping G that hold band b.
GroupsOf(G, b) == {g \in GroupIds : b \in G[g]}

\* C1: in every state reachable by band clicks, clear-all and restore-defaults
\* presses, no band id is a member of more than one of the three group sets.
C1_NoBandInTwoGroups ==
  \A b \in BandIds : Cardinality(GroupsOf(Groups, b)) <= 1

\* Reached in the page with the buttons after a click: all six bands are
\* assigned, in a grouping that only clicks produce (band 2 has left group 3
\* for group 1, band 0 group 1 for group 2).
C1_Witness ==
  /\ variant = "buttons"
  /\ lastEvent = "click"
  /\ \A b \in BandIds : GroupsOf(Groups, b) # {}
  /\ 2 \in Groups[1]
  /\ 0 \in Groups[2]

\* One step of the cycle 1 -> 2 -> 3 -> unassigned -> 1 for band b.
CycleStep(G, H, b) ==
  /\ \A g \in {1, 2} : GroupsOf(G, b) = {g} => GroupsOf(H, b) = {g + 1}
  /\ GroupsOf(G, b) = {3} => GroupsOf(H, b) = {}
  /\ GroupsOf(G, b) = {} => GroupsOf(H, b) = {1}

\* C2: one click on a band moves that band along the cycle group 1 -> group 2
\* -> group 3 -> unassigned -> group 1, into the next group and no other.
C2_ClickCycle ==
  [][\A i \in 1..Len(renders), b \in BandIds :
       ClickAgain(i, b) => CycleStep(Groups, Groups', b)]_vars

\* Reached: three clicks in a row have taken a band from group 1 through
\* groups 2 and 3 to unassigned.
C2_Witness ==
  /\ streak.n = 3
  /\ GroupsOf(streak.before, streak.band) = {1}
  /\ GroupsOf(Groups, streak.band) = {}

\* C3: four consecutive clicks on the same band return the whole group
\* assignment to what it was before the first of them.
C3_FourClicksRestore ==
  streak.n = 4 => Groups = streak.before

\* Reached: four clicks in a row on a band that started unassigned, in a
\* grouping whose other bands are assigned, and the band is unassigned again.
C3_Witness ==
  /\ streak.n = 4
  /\ GroupsOf(streak.before, streak.band) = {}
  /\ GroupsOf(Groups, streak.band) = {}
  /\ \A c \in BandIds \ {streak.band} : GroupsOf(Groups, c) # {}

\* C4: a click on band b changes the group membership of band b only.
C4_ClickFrame ==
  [][\A i \in 1..Len(renders), b \in BandIds :
       ClickAgain(i, b) =>
         \A c \in BandIds \ {b} : GroupsOf(Groups', c) = GroupsOf(Groups, c)]_vars

\* Reached: a band was clicked out of a group it shared with another band,
\* into a group that holds a third band.
C4_Witness ==
  /\ streak.n = 1
  /\ \E g \in {1, 2} :
       /\ streak.band \in streak.before[g]
       /\ streak.before[g] # {streak.band}
       /\ streak.before[g + 1] # {}
       /\ Groups[g] = streak.before[g] \ {streak.band}
       /\ Groups[g + 1] = streak.before[g + 1] \cup {streak.band}

(***************************************************************************)
(* The averager's claims, stated over the chart that updateChartFromGroups *)
(* has drawn from the samples tasData.rows and the grouping Groups.        *)
(***************************************************************************)
\* The band with id b.
BandOf(b) == latitudeBands[CHOOSE i \in 1..Len(latitudeBands) : latitudeBands[i].id = b]

\* The samples (by position) whose latitude falls in one of group g's bands.
Matching(g) ==
  { i \in 1..Len(tasData.rows) :
      \E b \in Groups[g] : InBand(tasData.rows[i].lat, BandOf(b)) }

MatchingIn(g, year) == { i \in Matching(g) : tasData.rows[i].year = year }

\* The sum of tas over a set of samples.
RECURSIVE TasSum(_)
TasSum(I) ==
  IF I = {}
    THEN 0
    ELSE LET i == CHOOSE x \in I : TRUE
         IN  tasData.rows[i].tas + TasSum(I \ {i})

\* The groups that have bands, in ascending order.
NonEmptyGroups == { g \in GroupIds : Groups[g] # {} }

NthNonEmpty(k) ==
  CHOOSE g \in NonEmptyGroups : Cardinality({h \in NonEmptyGroups : h < g}) = k - 1

\* The series drawn in the chart.
Series == linechart[1].series

\* The series of the chart that are named after group g.
SeriesOfGroup(g) == { k \in 1..Len(Series) : Series[k].name = GroupName(g) }

\* C5: the series of a non-empty group has exactly one entry for each distinct
\* year in which a sample's latitude falls in one of the group's bands, none
\* for any other year, and the entry's tas is the mean of the tas of exactly
\* those samples of that year (tas times their number equals their sum).
C5_SeriesIsYearlyMean ==
  linechart # <<>> =>
    \A g \in NonEmptyGroups :
      \E k \in SeriesOfGroup(g) :
        LET values == Series[k].values
        IN  /\ { values[n].year : n \in 1..Len(values) }
                 = { tasData.rows[i].year : i \in Matching(g) }
            /\ \A m, n \in 1..Len(values) : values[m].year = values[n].year => m = n
            /\ \A n \in 1..Len(values) :
                 LET I == MatchingIn(g, values[n].year)
                 IN  /\ values[n].tas.den > 0
                     /\ values[n].tas.num * Cardinality(I)
                          = values[n].tas.den * TasSum(I)

\* Reached: a group of two bands whose series has two years, the first the
\* mean of two samples from different bands of the group with different tas,
\* while a third sample (latitude 90) matches no band.
C5_Witness ==
  /\ linechart # <<>>
  /\ Groups[2] = {2, 3}
  /\ Len(tasData.rows) = 3
  /\ tasData.rows[1].lat = -15 /\ tasData.rows[1].year = 2001
  /\ tasData.rows[2].lat = 90 /\ tasData.rows[2].year = 2001
  /\ tasData.rows[3].lat = 0 /\ tasData.rows[3].year = 2001
  /\ tasData.rows[1].tas # tasData.rows[3].tas
  /\ Series = << [name |-> "Group 2",
                  values |-> << [year |-> 2001, tas |-> [num |-> 1, den |-> 2]] >>] >>

\* C6: computeGroupAverages returns exactly one series for each group whose
\* band set is non-empty and none for an empty group, in ascending group id,
\* the series of group g being named 'Group g'.
C6_OneSeriesPerNonEmptyGroup ==
  linechart # <<>> =>
    /\ Len(Series) = Cardinality(NonEmptyGroups)
    /\ \A k \in 1..Len(Series) :
         Series[k].name = CASE NthNonEmpty(k) = 1 -> "Group 1"
                            [] NthNonEmpty(k) = 2 -> "Group 2"
                            [] NthNonEmpty(k) = 3 -> "Group 3"

\* Reached: group 1 is empty and has no series; group 2 owns a band that no
\* sample falls in and has a series with no entries; group 3 follows it.
C6_Witness ==
  /\ linechart # <<>>
  /\ Groups[1] = {} /\ Groups[2] = {2} /\ Groups[3] = {3}
  /\ Len(tasData.rows) = 2
  /\ \A i \in 1..2 : tasData.rows[i].lat \in {0, 90}
  /\ Len(Series) = 2
  /\ Series[1].name = "Group 2" /\ Series[1].values = <<>>
  /\ Series[2].name = "Group 3" /\ Series[2].values # <<>>

(***************************************************************************)
(* The claims about what the page shows.                                   *)
(***************************************************************************)
\* C7: with the data loaded, after every handler that changes the grouping
\* has finished, the grouped series shown in the line chart is the one
\* computed from the grouping as it is at that moment.
C7_ChartShowsCurrentGrouping ==
  (pc = "ready" /\ tasData.ok) =>
    /\ linechart # <<>>
    /\ Series = computeGroupAverages(tasData, Groups, latitudeBands).value

\* Reached: clear-all was pressed in a grouping that had series, while the
\* map of that grouping was still loading, and the chart shows no series.
C7_Witness ==
  /\ tasData.ok
  /\ lastEvent = "clear"
  /\ \E i \in 1..Len(renders) :
       /\ ~renders[i].attached
       /\ computeGroupAverages(tasData, heap[renders[i].groups], latitudeBands).value
            # <<>>
  /\ linechart # <<>>
  /\ Series = <<>>

\* The colour of the group that owns band b now, transparent when none does.
OwnerColour(b) ==
  IF \E g \in GroupIds : b \in Groups[g]
    THEN schemeSet1[CHOOSE g \in GroupIds : b \in Groups[g]]
    ELSE Transparent

\* The svgs in the document whose strips are drawn.
DrawnMaps == { i \in 1..Len(renders) : renders[i].attached /\ renders[i].phase = "drawn" }

StripsCurrent ==
  \A i \in DrawnMaps :
    \A k \in 1..Len(latitudeBands) :
      renders[i].strips[k] = OwnerColour(latitudeBands[k].id)

\* C8: under every interleaving of clicks and presses with the completions of
\* pending world-map loads, the strips drawn on the visible map have the
\* colours of the groups that own the bands now (a render started before a
\* later grouping change leaves no older strips there), and once the user has
\* stopped and the loads have completed the visible map shows such strips.
C8_StripsReflectGrouping ==
  /\ []StripsCurrent
  /\ <>[](DrawnMaps # {} /\ StripsCurrent)

\* Reached: the visible map shows the strips of the grouping after a press
\* (all transparent) while the render of the map removed by the press, which
\* holds another grouping, is still waiting for its load.
C8_Witness ==
  /\ lastEvent = "clear"
  /\ DrawnMaps # {}
  /\ \A i \in DrawnMaps : \A k \in 1..Len(latitudeBands) : renders[i].strips[k] = Transparent
  /\ \E j \in 1..Len(renders) :
       /\ ~renders[j].attached
       /\ renders[j].phase = "awaiting"
       /\ heap[renders[j].groups] # Groups

\* C9: pressing clear-all leaves all three groups empty, pressing
\* restore-defaults leaves group 1 = {0, 5}, group 2 = {1, 4}, group 3 =
\* {2, 3}, whatever the grouping before the press, and the page with the
\* buttons starts in the restore-defaults grouping.
C9_ResetsAndStart ==
  /\ lastEvent = "clear" => \A g \in GroupIds : Groups[g] = {}
  /\ lastEvent = "restore" => Groups[1] = {0, 5} /\ Groups[2] = {1, 4} /\ Groups[3] = {2, 3}
  /\ (variant = "buttons" /\ pc = "ready" /\ lastEvent = "none") =>
       Groups[1] = {0, 5} /\ Groups[2] = {1, 4} /\ Groups[3] = {2, 3}

\* Reached: restore-defaults was pressed in a grouping that clicks had made
\* (neither empty nor the preset), which the render of the removed map still
\* holds.
C9_Witness ==
  /\ lastEvent = "restore"
  /\ Groups = DefaultPreset
  /\ \E j \in 1..Len(renders) :
       /\ ~renders[j].attached
       /\ heap[renders[j].groups] # DefaultPreset
       /\ heap[renders[j].groups] # EmptyGroups

\* The grouping is the poles / mid-latitudes / tropics pattern: the three
\* groups are {0, 5}, {1, 4} and {2, 3} in some assignment to the group ids.
IsPresetPattern(G) == { G[g] : g \in GroupIds } = { {0, 5}, {1, 4}, {2, 3} }

Errors == SelectSeq(console, LAMBDA m : m = "error")

\* C11: loadTASData never fails outward.  When d3.csv fails it logs the
\* error once and completes with no data, d3.csv is called once and not
\* again, and the script goes on to the initial map render call and chart
\* render call; when d3.csv succeeds tasData holds one {year, lat, tas}
\* record of numbers per row of the CSV and nothing is logged as an error.
C11_LoaderNeverFailsOutward ==
  /\ pc \in {"loading", "ready"}
  /\ pc = "loading" => fetches = 0 /\ console = <<>>
  /\ pc = "ready" =>
       /\ fetches = 1
       /\ Len(renders) >= 1
       /\ \/ linechart # <<>>
          \/ computeGroupAverages(tasData, Groups, latitudeBands).threw
       /\ ~tasData.ok => tasData = NoData /\ Len(Errors) = 1
       /\ tasData.ok =>
            /\ Len(tasData.rows) = Len(CsvFile)
            /\ tasData.rows = Fixture
            /\ Errors = <<>>

\* Reached: the CSV load failed on the page with the buttons, the error is
\* logged, the initial map is drawn and the chart container is empty because
\* the initial chart call threw on the missing data.
C11_Witness ==
  /\ variant = "buttons"
  /\ pc = "ready"
  /\ ~tasData.ok
  /\ console = << "error" >>
  /\ fetches = 1
  /\ DrawnMaps # {}
  /\ linechart = <<>>

(***************************************************************************)
(* The averager over samples at the ends of the bands, with every band     *)
(* assigned to a group.                                                    *)
(***************************************************************************)
MaxBandSamples == 2

\* Latitudes at both ends of the range and at the ends of bands.
BandLats == {-90, -30, 0, 60, 90}

BandSamples == [year : {2000}, lat : BandLats, tas : {1}]

BandSampleLists == UNION { [1..n -> BandSamples] : n \in 0..MaxBandSamples }

FullGroupings == { G \in Groupings : UNION { G[g] : g \in GroupIds } = BandIds }

InitBands ==
  /\ variant = "global"
  /\ pc = "ready"
  /\ tasData \in [ok : {TRUE}, rows : BandSampleLists]
  /\ userGroups = 1
  /\ \E groups \in FullGroupings :
       heap = [o \in ObjIds |-> IF o = 1 THEN groups ELSE EmptyGroups]
  /\ renders = <<>>
  /\ linechart = <<>>
  /\ lastEvent = "none"
  /\ events = 0
  /\ streak = NoStreak
  /\ console = << "log" >>
  /\ fetches = 1

AverageBands == Average

NextBands == AverageBands

SpecBands == InitBands /\ [][NextBands]_vars

\* The bands whose membership test a latitude passes.
BandsOfLat(lat) ==
  { k \in 1..Len(latitudeBands) : InBand(lat, latitudeBands[k]) }

RECURSIVE CountIn(_)
CountIn(values) ==
  IF values = <<>> THEN 0 ELSE Head(values).tas.den + CountIn(Tail(values))

\* The number of samples averaged into the entries of the series.
RECURSIVE Averaged(_)
Averaged(series) ==
  IF series = <<>> THEN 0 ELSE CountIn(Head(series).values) + Averaged(Tail(series))

\* C12: every sample whose latitude lies in -90..90, both ends included,
\* falls in exactly one band under the averager's membership test, and with
\* all six bands assigned to groups every such sample is averaged into
\* exactly one group's series.
C12_BandsCoverRange ==
  linechart # <<>> =>
    /\ \A i \in 1..Len(tasData.rows) :
         tasData.rows[i].lat \in -90..90 =>
           Cardinality(BandsOfLat(tasData.rows[i].lat)) = 1
    /\ Averaged(Series) = Len(tasData.rows)

(***************************************************************************)
(* The claims about the map container.                                     *)
(***************************************************************************)
\* C13: on the page that rebuilds the map on every click, after the initial
\* render call and after every click, clear-all or restore-defaults handler,
\* under every interleaving with the completions of pending fetches, #latmap
\* holds exactly one svg; and that svg holds only what its own render drew
\* (nothing while its fetch is pending or has failed, the strips of its own
\* userGroups parameter afterwards), so a render whose svg has been removed
\* adds nothing to the container.
C13_ExactlyOneSvg ==
  (variant = "buttons" /\ pc = "ready") =>
    /\ Len(LatmapSvgs) = 1
    /\ LatmapSvgs[1].phase # "drawn" => LatmapSvgs[1].strips = <<>>
    /\ LatmapSvgs[1].phase = "drawn" =>
         LatmapSvgs[1].strips =
           bandFills(variant, heap[LatmapSvgs[1].groups], latitudeBands)

\* Reached: after a press made while the map was loading, the one svg in
\* #latmap is drawn while the render of the removed svg still awaits its
\* fetch.
C13_Witness ==
  /\ variant = "buttons"
  /\ pc = "ready"
  /\ lastEvent = "restore"
  /\ Len(LatmapSvgs) = 1
  /\ LatmapSvgs[1].phase = "drawn"
  /\ \E j \in 1..Len(renders) : ~renders[j].attached /\ renders[j].phase = "awaiting"

(***************************************************************************)
(* The claims about the order of a series.                                 *)
(***************************************************************************)
\* The place of the first loaded sample of a year that matches group g.
FirstMatch(g, year) ==
  CHOOSE i \in MatchingIn(g, year) : \A j \in MatchingIn(g, year) : i <= j

\* The loaded samples are in non-decreasing order of the year.
RowsByYear ==
  \A i, j \in 1..Len(tasData.rows) :
    i < j => tasData.rows[i].year <= tasData.rows[j].year

\* C14: each group's series lists its years in the order in which each year
\* first occurs among the loaded samples that match the group; so when the
\* loaded samples are in non-decreasing year order every series is in
\* strictly increasing year order, for every grouping.
C14_YearsInFirstOccurrenceOrder ==
  linechart # <<>> =>
    \A g \in NonEmptyGroups :
      \A k \in SeriesOfGroup(g) :
        LET values == Series[k].values
        IN  \A m, n \in 1..Len(values) :
              m < n =>
                /\ MatchingIn(g, values[m].year) # {}
                /\ MatchingIn(g, values[n].year) # {}
                /\ FirstMatch(g, values[m].year) < FirstMatch(g, values[n].year)
                /\ RowsByYear => values[m].year < values[n].year

\* Reached: the samples are loaded with 2001 before 2000, and the series of a
\* group that matches both lists 2001 first.
C14_Witness ==
  /\ linechart # <<>>
  /\ ~RowsByYear
  /\ \E k \in 1..Len(Series) :
       /\ Len(Series[k].values) = 2
       /\ Series[k].values[1].year = 2001
       /\ Series[k].values[2].year = 2000

====
